---- MODULE Spec2Model ----
(***************************************************************************)
(* jack_keyboard: a winit event loop (UI thread) turns key presses and     *)
(* releases into KeyboardMsg values, sends them over an mpsc channel, and  *)
(* a JACK process callback (audio thread) drains the channel and writes    *)
(* one raw MIDI message per KeyboardMsg.                                   *)
(*                                                                         *)
(* Program state: active_keys, control_flow, chan, pc, ret, rx_alive,      *)
(* panicked, process_ended.                                                *)
(* Observation state (what an outside observer has seen so far): sent,     *)
(* taken, written, block_start, ui, last_raw, held_on, script_pos, probe.  *)
(***************************************************************************)
EXTENDS Integers, Sequences, FiniteSets, TLC

VARIABLES
    active_keys,   \* run_window: HashSet<ScanCode> of the keys held down
    control_flow,  \* run_window: the event loop's ControlFlow after the last closure call
    chan,          \* the mpsc channel: KeyboardMsg values sent and not yet received
    pc,            \* process closure: "idle" between invocations, "loop" inside the while-let
    ret,           \* process closure: value of the last return
    sent,          \* every KeyboardMsg tx.send was given, in order
    taken,         \* every KeyboardMsg rx.try_recv returned, in order
    written,       \* every writer.write call: the RawMidi given and whether it returned Ok
    block_start,   \* Len(written) when the current invocation's writer was made;
                   \* Len(written) between invocations
    ui,            \* the last window event the closure handled, with the state it found
    last_raw,      \* per scancode: state of the last key event that reached the
                   \* tracker, Released while none has
    held_on,       \* per scancode: pressed:true messages sent for it since its last key-up
    rx_alive,      \* the Receiver moved into the process closure still exists
    panicked,      \* run_window: the event closure panicked (unwrap of a failed send)
    process_ended, \* the process has ended: neither closure is called again
    script_pos,    \* scripted runs: index of the next scripted key event; 0 in free runs
    probe          \* Note-table runs: the arguments and results of the last lookups

vars == <<active_keys, control_flow, chan, pc, ret, sent, taken, written,
          block_start, ui, last_raw, held_on, rx_alive, panicked,
          process_ended, script_pos, probe>>

----------------------------------------------------------------------------
(* Bounds and input domains *)

\* tx.send is called at most MaxSent times in a behaviour
MaxSent == 3

None == "None"

\* ScanCode inputs: 1 (no note), 30 -> C4, 31 -> D4
ScanCodes == {1, 30, 31}

ElementStates == {"Pressed", "Released"}

\* Option<VirtualKeyCode> inputs: Some(Escape) and Some(A)
VirtualKeyCodes == {"Escape", "A"}

Notes == {"C4", "CSharp4", "D4", "DSharp4", "E4", "F4", "FSharp4", "G4",
          "GSharp4", "A4", "ASharp4", "B4", "C5"}

----------------------------------------------------------------------------
(* Note *)

\* Mutant: scancode 31 is given the note of scancode 30.
from_scancode_collide(scancode) ==
    CASE scancode = 30 -> "C4"
      [] scancode = 31 -> "C4"
      [] scancode = 32 -> "E4"
      [] scancode = 33 -> "F4"
      [] scancode = 34 -> "G4"
      [] scancode = 35 -> "A4"
      [] scancode = 36 -> "B4"
      [] scancode = 37 -> "C5"
      [] scancode = 17 -> "CSharp4"
      [] scancode = 18 -> "DSharp4"
      [] scancode = 20 -> "FSharp4"
      [] scancode = 21 -> "GSharp4"
      [] scancode = 22 -> "ASharp4"
      [] OTHER -> None

from_scancode(scancode) ==
    CASE scancode = 30 -> "C4"
      [] scancode = 31 -> "D4"
      [] scancode = 32 -> "E4"
      [] scancode = 33 -> "F4"
      [] scancode = 34 -> "G4"
      [] scancode = 35 -> "A4"
      [] scancode = 36 -> "B4"
      [] scancode = 37 -> "C5"
      [] scancode = 17 -> "CSharp4"
      [] scancode = 18 -> "DSharp4"
      [] scancode = 20 -> "FSharp4"
      [] scancode = 21 -> "GSharp4"
      [] scancode = 22 -> "ASharp4"
      [] OTHER -> None

\* Mutant: A#4 is given the number of A4.
to_midi_value_flat(note) ==
    CASE note = "C4" -> 60
      [] note = "CSharp4" -> 61
      [] note = "D4" -> 62
      [] note = "DSharp4" -> 63
      [] note = "E4" -> 64
      [] note = "F4" -> 65
      [] note = "FSharp4" -> 66
      [] note = "G4" -> 67
      [] note = "GSharp4" -> 68
      [] note = "A4" -> 69
      [] note = "ASharp4" -> 69
      [] note = "B4" -> 71
      [] note = "C5" -> 72

to_midi_value(note) ==
    CASE note = "C4" -> 60
      [] note = "CSharp4" -> 61
      [] note = "D4" -> 62
      [] note = "DSharp4" -> 63
      [] note = "E4" -> 64
      [] note = "F4" -> 65
      [] note = "FSharp4" -> 66
      [] note = "G4" -> 67
      [] note = "GSharp4" -> 68
      [] note = "A4" -> 69
      [] note = "ASharp4" -> 70
      [] note = "B4" -> 71
      [] note = "C5" -> 72

KeyboardMsg(note, pressed) == [note |-> note, pressed |-> pressed]

----------------------------------------------------------------------------
(* run_window: the KeyboardInput arm, piece by piece *)

\* if virtual_keycode == Some(VirtualKeyCode::Escape)
IsEscape(virtual_keycode) == virtual_keycode = "Escape"

\* Mutant: the repeat check is missing.
IsRepeatNever(keys, scancode, state) == FALSE

\* Mutant: the repeat check tests the wrong ElementState.
IsRepeatWrongState(keys, scancode, state) ==
    state = "Released" /\ scancode \in keys

\* if state == ElementState::Pressed && active_keys.contains(&scancode)
IsRepeat(keys, scancode, state) == state = "Pressed" /\ scancode \in keys

\* Mutant: a release leaves the scancode in the set.
UpdateKeysNoRemove(keys, scancode, state) ==
    IF state = "Pressed" THEN keys \cup {scancode} ELSE keys

\* Mutant: a press does not insert the scancode.
UpdateKeysNoInsert(keys, scancode, state) ==
    IF state = "Pressed" THEN keys ELSE keys \ {scancode}

\* Mutant: a release clears the whole set.
UpdateKeysClear(keys, scancode, state) ==
    IF state = "Pressed" THEN keys \cup {scancode} ELSE {}

\* match state { Pressed => insert, Released => remove }
UpdateKeys(keys, scancode, state) ==
    IF state = "Pressed" THEN keys \cup {scancode} ELSE keys \ {scancode}

\* Mutant: the pressed flag is inverted.
TransitionInverted(keys, scancode, state) ==
    IF from_scancode(scancode) # None
    THEN << [note |-> from_scancode(scancode), pressed |-> state # "Pressed"] >>
    ELSE << >>

\* Mutant: a release is reported only for a scancode that was held.
TransitionHeldOnly(keys, scancode, state) ==
    IF from_scancode(scancode) # None /\ (state = "Pressed" \/ scancode \in keys)
    THEN << [note |-> from_scancode(scancode), pressed |-> state = "Pressed"] >>
    ELSE << >>

\* Mutant: a scancode without a note is sent as C4.
TransitionDefaultNote(keys, scancode, state) ==
    << [note |-> IF from_scancode(scancode) # None
                 THEN from_scancode(scancode) ELSE "C4",
        pressed |-> state = "Pressed"] >>

\* if let Some(note) = Note::from_scancode(scancode) { tx.send(..) }:
\* the messages handed to tx.send, in order (keys: the set before the update)
Transition(keys, scancode, state) ==
    IF from_scancode(scancode) # None
    THEN << KeyboardMsg(from_scancode(scancode), state = "Pressed") >>
    ELSE << >>

\* Mutant: a message sent while others are queued is dropped.
SendDropWhenBusy(q, msg) == IF q = << >> THEN << msg >> ELSE q

\* Mutant: the message is put at the head of the queue.
SendAtHead(q, msg) == << msg >> \o q

\* tx.send(msg): the channel after the send
Send(q, msg) == Append(q, msg)

\* Mutant: the result of send is discarded.
UnwrapIgnored(failed) == FALSE

\* tx.send(..).unwrap(): panics iff the send returned Err
UnwrapPanics(failed) == failed

\* tx.send on the channel of mpsc::channel(): Err(SendError) iff the
\* Receiver is gone; the channel has no capacity limit
SendFails(alive) == ~alive

RECURSIVE SendAll(_, _)
SendAll(q, msgs) ==
    IF msgs = << >> THEN q ELSE SendAll(Send(q, Head(msgs)), Tail(msgs))

\* Mutant: the Escape check comes after the key tracking and the send.
OnKeyboardInputEscapeLast(keys, scancode, state, virtual_keycode) ==
    IF IsRepeat(keys, scancode, state)
    THEN [flow |-> "Wait", keys |-> keys, out |-> << >>, tracked |-> TRUE]
    ELSE [flow |-> IF IsEscape(virtual_keycode) THEN "Exit" ELSE "Wait",
          keys |-> UpdateKeys(keys, scancode, state),
          out |-> Transition(keys, scancode, state),
          tracked |-> ~IsEscape(virtual_keycode)]

\* The whole arm: what the closure leaves behind for one KeyboardInput event.
\* flow: *control_flow at return; out: the messages sent; tracked: the event
\* got past the Escape return and reached the key tracking.
OnKeyboardInput(keys, scancode, state, virtual_keycode) ==
    IF IsEscape(virtual_keycode)
    THEN [flow |-> "Exit", keys |-> keys, out |-> << >>, tracked |-> FALSE]
    ELSE IF IsRepeat(keys, scancode, state)
    THEN [flow |-> "Wait", keys |-> keys, out |-> << >>, tracked |-> TRUE]
    ELSE [flow |-> "Wait",
          keys |-> UpdateKeys(keys, scancode, state),
          out |-> Transition(keys, scancode, state),
          tracked |-> TRUE]

\* WindowEvent::CloseRequested => *control_flow = ControlFlow::Exit
OnCloseRequested == "Exit"

\* _ => (), after *control_flow = ControlFlow::Wait
OnOtherEvent == "Wait"

----------------------------------------------------------------------------
(* handle_jack: the process closure, piece by piece *)

\* Mutant: the newest message is received first.
try_recv_newest(q) ==
    IF q = << >> THEN [res |-> "Err", rest |-> q]
    ELSE [res |-> "Ok", msg |-> q[Len(q)], rest |-> SubSeq(q, 1, Len(q) - 1)]

\* Mutant: the receive never finds a message.
try_recv_never(q) == [res |-> "Err", rest |-> q]

\* Mutant: a blocking recv: on an empty channel it does not return.
recv_blocking(q) ==
    IF q = << >> THEN [res |-> "Blocked", rest |-> q]
    ELSE [res |-> "Ok", msg |-> Head(q), rest |-> Tail(q)]

\* rx.try_recv(): Ok(msg) with the oldest message, or Err(Empty), and the
\* channel afterwards
try_recv(q) ==
    IF q = << >> THEN [res |-> "Err", rest |-> q]
    ELSE [res |-> "Ok", msg |-> Head(q), rest |-> Tail(q)]

\* Mutant: the note-on and note-off commands are swapped.
RawMidiSwapped(msg) ==
    [time |-> 0,
     bytes |-> << IF msg.pressed THEN 129 ELSE 145,
                  to_midi_value(msg.note),
                  112 >>]

\* RawMidi { time: 0, bytes: &[command, note, velocity] }
RawMidi(msg) ==
    [time |-> 0,
     bytes |-> << IF msg.pressed THEN 145 ELSE 129,
                  to_midi_value(msg.note),
                  112 >>]

\* Mutant: a failed write ends the invocation.
AfterWriteStopOnErr(ok) ==
    IF ok THEN [pc |-> "loop", ret |-> ret] ELSE [pc |-> "idle", ret |-> "Quit"]

\* Mutant: if let in place of while let, one message per invocation.
AfterWriteOnce(ok) == [pc |-> "idle", ret |-> "Continue"]

\* match writer.write(..) { Ok(_) => (), Err(err) => eprintln!(..) }:
\* where the closure goes after a write, and what it would return
AfterWrite(ok) == [pc |-> "loop", ret |-> ret]

----------------------------------------------------------------------------
(* State machine *)

InitProgram ==
    /\ active_keys = {}
    /\ control_flow = "Poll"
    /\ chan = << >>
    /\ pc = "idle"
    /\ ret = None
    /\ sent = << >>
    /\ taken = << >>
    /\ written = << >>
    /\ block_start = 0
    /\ ui = [kind |-> "none", keys0 |-> {}, sent0 |-> 0, rx0 |-> TRUE]
    /\ last_raw = [c \in ScanCodes |-> "Released"]
    /\ held_on = [c \in ScanCodes |-> 0]
    /\ rx_alive = TRUE
    /\ panicked = FALSE
    /\ process_ended = FALSE
    /\ probe = [kind |-> "none"]

Init == InitProgram /\ script_pos = 0

audio_vars == <<pc, ret, taken, written, block_start>>

\* The closure is called for as long as the process runs and the closure
\* has not panicked. It never reads *control_flow: when the event loop
\* calls it after Exit was stored (events already queued, LoopDestroyed),
\* it handles the event like any other.
LoopRunning == ~panicked /\ ~process_ended

\* *control_flow = ..: what the event loop's ControlFlow can be after a
\* call in which the closure stored `stored`. The closure stores without
\* reading (line 66 stores Wait in every call). A loop that hands the
\* closure its own ControlFlow holds what was stored; a loop that treats
\* Exit as sticky keeps Exit once it was stored. Which of the two
\* EventLoop::run does is not decided by this code.
LoopFlows(flow, stored) ==
    IF flow = "Exit" THEN {"Exit", stored} ELSE {stored}

KeyboardInput(scancode, state, virtual_keycode) ==
    LET r == OnKeyboardInput(active_keys, scancode, state, virtual_keycode)
        failed == r.out # << >> /\ SendFails(rx_alive)
        delivered == IF failed THEN << >> ELSE r.out
    IN
    /\ LoopRunning
    /\ Len(sent) + Len(r.out) <= MaxSent
    /\ control_flow' \in LoopFlows(control_flow, r.flow)
    /\ active_keys' = r.keys
    /\ panicked' = UnwrapPanics(failed)
    /\ chan' = SendAll(chan, delivered)
    /\ sent' = sent \o delivered
    /\ ui' = [kind |-> "key", scancode |-> scancode, state |-> state,
              virtual_keycode |-> virtual_keycode,
              keys0 |-> active_keys, sent0 |-> Len(sent), rx0 |-> rx_alive]
    /\ script_pos' = IF script_pos = 0 THEN 0 ELSE script_pos + 1
    /\ UNCHANGED <<rx_alive, probe, process_ended>>
    /\ last_raw' = IF r.tracked THEN [last_raw EXCEPT ![scancode] = state]
                   ELSE last_raw
    /\ held_on' = IF ~r.tracked THEN held_on
                  ELSE [held_on EXCEPT ![scancode] =
                          (IF state = "Released" THEN 0 ELSE @)
                          + Cardinality({i \in 1..Len(delivered) : delivered[i].pressed})]
    /\ UNCHANGED audio_vars

CloseRequested ==
    /\ LoopRunning
    /\ control_flow' \in LoopFlows(control_flow, OnCloseRequested)
    /\ ui' = [kind |-> "close", keys0 |-> active_keys, sent0 |-> Len(sent),
              rx0 |-> rx_alive]
    /\ UNCHANGED <<active_keys, chan, sent, last_raw, held_on>>
    /\ UNCHANGED <<rx_alive, panicked, script_pos, probe, process_ended>>
    /\ UNCHANGED audio_vars

OtherEvent ==
    /\ LoopRunning
    /\ control_flow' \in LoopFlows(control_flow, OnOtherEvent)
    /\ ui' = [kind |-> "other", keys0 |-> active_keys, sent0 |-> Len(sent),
              rx0 |-> rx_alive]
    /\ UNCHANGED <<active_keys, chan, sent, last_raw, held_on>>
    /\ UNCHANGED <<rx_alive, panicked, script_pos, probe, process_ended>>
    /\ UNCHANGED audio_vars

ui_vars == <<active_keys, control_flow, sent, ui, last_raw, held_on,
             panicked, script_pos>>

\* JACK invokes the process closure: let mut writer = out.writer(process_scope)
ProcessBegin ==
    /\ ~process_ended
    /\ rx_alive
    /\ pc = "idle"
    /\ pc' = "loop"
    /\ block_start' = Len(written)
    /\ UNCHANGED <<chan, ret, taken, written>>
    /\ UNCHANGED ui_vars
    /\ UNCHANGED <<rx_alive, probe, process_ended>>

\* One turn of while let Ok(msg) = rx.try_recv() { writer.write(..) }.
\* The write succeeds or fails as the port buffer decides.
ProcessRecv ==
    LET r == try_recv(chan) IN
    /\ ~process_ended
    /\ pc = "loop"
    /\ r.res = "Ok"
    /\ chan' = r.rest
    /\ taken' = Append(taken, r.msg)
    /\ \E ok \in BOOLEAN :
          /\ written' = Append(written, [raw |-> RawMidi(r.msg), ok |-> ok])
          /\ pc' = AfterWrite(ok).pc
          /\ ret' = AfterWrite(ok).ret
    /\ UNCHANGED block_start
    /\ UNCHANGED ui_vars
    /\ UNCHANGED <<rx_alive, probe, process_ended>>

\* try_recv finds the channel empty: the loop ends, jack::Control::Continue
ProcessReturn ==
    /\ ~process_ended
    /\ pc = "loop"
    /\ try_recv(chan).res = "Err"
    /\ pc' = "idle"
    /\ ret' = "Continue"
    /\ block_start' = Len(written)
    /\ UNCHANGED <<chan, taken, written>>
    /\ UNCHANGED ui_vars
    /\ UNCHANGED <<rx_alive, probe, process_ended>>

\* EventLoop::run never returns: when its ControlFlow is Exit after a call
\* it ends the process, and a panic of the closure ends it too. The process closure may be in
\* the middle of an invocation, and messages may still be queued.
ProcessEnd ==
    /\ ~process_ended
    /\ control_flow = "Exit" \/ panicked
    /\ process_ended' = TRUE
    /\ UNCHANGED <<chan, rx_alive, probe>>
    /\ UNCHANGED audio_vars
    /\ UNCHANGED ui_vars

Next ==
    \/ \E scancode \in ScanCodes, state \in ElementStates,
          virtual_keycode \in VirtualKeyCodes :
            KeyboardInput(scancode, state, virtual_keycode)
    \/ CloseRequested
    \/ OtherEvent
    \/ ProcessBegin
    \/ ProcessRecv
    \/ ProcessReturn
    \/ ProcessEnd

Spec == Init /\ [][Next]_vars

----------------------------------------------------------------------------
(* Fair run: the audio thread is scheduled *)

\* tx.send is called at most MaxSentLive times in a fair run
MaxSentLive == 2

NextLive ==
    \/ \E scancode \in ScanCodes, state \in ElementStates,
          virtual_keycode \in VirtualKeyCodes :
            /\ KeyboardInput(scancode, state, virtual_keycode)
            /\ Len(sent') <= MaxSentLive
    \/ CloseRequested
    \/ OtherEvent
    \/ ProcessBegin
    \/ ProcessRecv
    \/ ProcessReturn
    \/ ProcessEnd

\* JACK invokes the process closure once per period for as long as the
\* client is active, and the real-time thread running it is not starved:
\* an invocation that can begin does, and a turn of its loop that can be
\* taken is. The client is active until the process ends: the three steps
\* are disabled from then on, so nothing is asked of them after the end,
\* and the process may end with messages still queued. Nothing is assumed
\* of the window events, nor of when after Exit the process ends.
SpecLive ==
    /\ Init
    /\ [][NextLive]_vars
    /\ WF_vars(ProcessBegin)
    /\ WF_vars(ProcessRecv)
    /\ WF_vars(ProcessReturn)

----------------------------------------------------------------------------
(* Note-table run: to_midi_value applied to pairs of notes *)

\* enum Note in declaration order, which is the order of pitch
NoteOrder == << "C4", "CSharp4", "D4", "DSharp4", "E4", "F4", "FSharp4",
                "G4", "GSharp4", "A4", "ASharp4", "B4", "C5" >>

ProbeNotes ==
    /\ \E i, j \in 1..Len(NoteOrder) :
          probe' = [kind |-> "notes", i |-> i, j |-> j,
                    vi |-> to_midi_value(NoteOrder[i]),
                    vj |-> to_midi_value(NoteOrder[j])]
    /\ UNCHANGED <<chan, rx_alive, process_ended>>
    /\ UNCHANGED audio_vars
    /\ UNCHANGED ui_vars

SpecNotes == Init /\ [][ProbeNotes]_vars

----------------------------------------------------------------------------
(* Scripted run: hold the key of C4 *)

\* key-down of scancode 30, two auto-repeat key-downs, key-up
HoldScript ==
    << [scancode |-> 30, state |-> "Pressed"],
       [scancode |-> 30, state |-> "Pressed"],
       [scancode |-> 30, state |-> "Pressed"],
       [scancode |-> 30, state |-> "Released"] >>

InitHold == InitProgram /\ script_pos = 1

\* The window delivers the scripted key events in order, with other window
\* events between them; the process closure runs as in any run.
NextHold ==
    \/ /\ script_pos \in 1..Len(HoldScript)
       /\ KeyboardInput(HoldScript[script_pos].scancode,
                        HoldScript[script_pos].state, "A")
    \/ OtherEvent
    \/ ProcessBegin
    \/ ProcessRecv
    \/ ProcessReturn

SpecHold == InitHold /\ [][NextHold]_vars

----------------------------------------------------------------------------
(* Fault run: the Receiver goes away *)

\* main keeps _async_client, and with it the process closure and its
\* Receiver, for as long as run_window runs, so the program itself never
\* takes this step. It is added as a fault of the audio side, between two
\* invocations, to exercise the unwrap of a failed send. Dropping the
\* Receiver destroys every message still queued.
DropReceiver ==
    /\ ~process_ended
    /\ rx_alive
    /\ pc = "idle"
    /\ rx_alive' = FALSE
    /\ chan' = << >>
    /\ UNCHANGED <<probe, process_ended>>
    /\ UNCHANGED audio_vars
    /\ UNCHANGED ui_vars

\* tx.send is called at most MaxSentFault times in a fault run
MaxSentFault == 2

NextFault ==
    \/ \E scancode \in ScanCodes, state \in ElementStates,
          virtual_keycode \in VirtualKeyCodes :
            /\ KeyboardInput(scancode, state, virtual_keycode)
            /\ Len(sent') <= MaxSentFault
    \/ CloseRequested
    \/ OtherEvent
    \/ ProcessBegin
    \/ ProcessRecv
    \/ ProcessReturn
    \/ ProcessEnd
    \/ DropReceiver

SpecFault == Init /\ [][NextFault]_vars

----------------------------------------------------------------------------
(* Observations used by the claims *)

\* The last event the closure handled was a KeyboardInput that reached the
\* key tracking (it was not the Escape key).
TrackerGot(state) ==
    /\ ui.kind = "key"
    /\ ui.virtual_keycode # "Escape"
    /\ ui.state = state

\* The messages sent while handling the last event
SentByLast == SubSeq(sent, ui.sent0 + 1, Len(sent))

C4On == [note |-> "C4", pressed |-> TRUE]
C4Off == [note |-> "C4", pressed |-> FALSE]
D4On == [note |-> "D4", pressed |-> TRUE]
D4Off == [note |-> "D4", pressed |-> FALSE]

----------------------------------------------------------------------------
(* Claims *)

\* C1: a key-down for a scancode already in the Active-Key Set is a no-op:
\* nothing is sent on the channel and the set is unchanged, mapped or not.
C1_RepeatIsNoOp ==
    (TrackerGot("Pressed") /\ ui.scancode \in ui.keys0)
        => (active_keys = ui.keys0 /\ SentByLast = << >>)

\* A repeat key-down of the mapped scancode 30 has just been handled, after
\* its first key-down sent the note-on.
C1_Witness ==
    /\ TrackerGot("Pressed")
    /\ ui.scancode = 30
    /\ 30 \in ui.keys0
    /\ sent = << C4On >>

\* C2: within one held interval of a scancode (from a key-down that is not
\* suppressed to its next key-up) at most one pressed:true message is sent
\* for it, however many key-downs arrive.
C2_OneOnPerHold == \A c \in ScanCodes : held_on[c] <= 1

\* Scancode 31 is held, its note-on was sent once, and a further key-down of
\* it has just been handled.
C2_Witness ==
    /\ TrackerGot("Pressed")
    /\ ui.scancode = 31
    /\ 31 \in ui.keys0
    /\ held_on[31] = 1

\* C3: a key-down for a scancode not in the Active-Key Set inserts it, and
\* sends exactly one {note, pressed:true} with note = from_scancode(scancode)
\* if the scancode has a note, nothing otherwise.
C3_NewPress ==
    (TrackerGot("Pressed") /\ ui.scancode \notin ui.keys0)
        => /\ active_keys = ui.keys0 \cup {ui.scancode}
           /\ SentByLast =
                IF from_scancode(ui.scancode) # None
                THEN << [note |-> from_scancode(ui.scancode), pressed |-> TRUE] >>
                ELSE << >>

\* A first key-down of scancode 31 (D4) has just been handled while scancode
\* 30 was already held.
C3_Witness ==
    /\ TrackerGot("Pressed")
    /\ ui.scancode = 31
    /\ ui.keys0 = {30}
    /\ sent = << C4On, D4On >>

\* C4: every key-up removes the scancode from the Active-Key Set and sends
\* exactly one {note, pressed:false} iff the scancode has a note, whether or
\* not the scancode was in the set before.
C4_Release ==
    TrackerGot("Released")
        => /\ active_keys = ui.keys0 \ {ui.scancode}
           /\ SentByLast =
                IF from_scancode(ui.scancode) # None
                THEN << [note |-> from_scancode(ui.scancode), pressed |-> FALSE] >>
                ELSE << >>

\* A key-up of scancode 30 has just been handled although 30 was never
\* pressed: the note-off was sent all the same.
C4_Witness ==
    /\ TrackerGot("Released")
    /\ ui.scancode = 30
    /\ 30 \notin ui.keys0
    /\ sent = << C4Off >>

\* C5: a scancode is in the Active-Key Set iff the most recent key event the
\* tracker processed for it is a key-down, mapped or not.
C5_ActiveKeysInvariant ==
    \A c \in ScanCodes : (c \in active_keys) <=> (last_raw[c] = "Pressed")

\* The unmapped scancode 1 is held, the mapped scancode 30 was pressed and
\* released, and 31 is held.
C5_Witness ==
    /\ active_keys = {1, 31}
    /\ last_raw[30] = "Released"
    /\ sent = << C4On, C4Off, D4On >>

\* C6: the messages received from the channel, over all invocations of the
\* process closure, are in exactly the order they were sent.
C6_Fifo ==
    /\ Len(taken) <= Len(sent)
    /\ \A i \in 1..Len(taken) : taken[i] = sent[i]

\* Two keys pressed, the second released; the callback received the three
\* messages over more than one invocation, the first of them while the
\* later ones were not yet sent or still queued.
C6_Witness ==
    /\ taken = << C4On, D4On, D4Off >>
    /\ block_start \in 1..2
    /\ pc = "loop"

\* C7: every message sent is received at most once and never lost or
\* altered: the messages received so far followed by those still queued are
\* the messages sent so far.
C7_ExactlyOnce == taken \o chan = sent

\* One message has been received and two more are queued behind it.
C7_Witness ==
    /\ Len(taken) = 1
    /\ Len(chan) = 2
    /\ pc = "loop"

\* C8: for every message received, the callback writes one 3-byte message
\* [status, note number, velocity] at time 0, status 0x91 if pressed else
\* 0x81, note number to_midi_value(note), velocity 0x70.
C8_MidiEncoding ==
    /\ Len(written) = Len(taken)
    /\ \A i \in 1..Len(taken) :
          /\ written[i].raw.time = 0
          /\ Len(written[i].raw.bytes) = 3
          /\ written[i].raw.bytes[1] = (IF taken[i].pressed THEN 145 ELSE 129)
          /\ written[i].raw.bytes[2] = to_midi_value(taken[i].note)
          /\ written[i].raw.bytes[3] = 112

\* A note-on for D4 and a note-off for C4 have been written.
C8_Witness ==
    /\ Len(written) = 2
    /\ written[1].raw.bytes = << 145, 62, 112 >>
    /\ written[2].raw.bytes = << 129, 60, 112 >>

\* C9: a failed write does not end the invocation: the closure stays in its
\* loop after it, and leaves the loop only when try_recv finds the channel
\* empty, returning Continue.
C9_WriteFailureRecoverable ==
    [][ /\ (Len(written') > Len(written) /\ ~written'[Len(written')].ok)
            => pc' = "loop"
        /\ (pc = "loop" /\ pc' = "idle")
            => (chan = << >> /\ ret' = "Continue") ]_vars

\* An invocation has returned Continue after a write in it failed and the
\* writes for the two messages behind it were attempted.
C9_Witness ==
    /\ pc = "loop"
    /\ block_start = 0
    /\ Len(written) = 3
    /\ ~written[1].ok
    /\ chan = << >>

\* C10: an Escape key event (press or release) and a window close request
\* send nothing, leave the Active-Key Set unchanged and set control flow to
\* Exit.
C10_EscapeAndClose ==
    ((ui.kind = "key" /\ ui.virtual_keycode = "Escape") \/ ui.kind = "close")
        => /\ control_flow = "Exit"
           /\ active_keys = ui.keys0
           /\ SentByLast = << >>

\* The Escape key event carried the mapped scancode 31, as a press, while
\* 30 was held and 31 was not.
C10_Witness ==
    /\ ui.kind = "key"
    /\ ui.virtual_keycode = "Escape"
    /\ ui.scancode = 31
    /\ ui.state = "Pressed"
    /\ ui.keys0 = {30}
    /\ control_flow = "Exit"

\* The scancodes Note::from_scancode gives a note
MappedScanCodes == {17, 18, 20, 21, 22} \cup (30..37)

\* C11: a key-down or key-up of a scancode with no note never sends a
\* message, and the Active-Key Set is updated for it as for any scancode:
\* inserted on a press (a repeat press changes nothing), removed on release.
C11_UnmappedKeys ==
    (ui.kind = "key" /\ ui.virtual_keycode # "Escape"
        /\ ui.scancode \notin MappedScanCodes)
        => /\ SentByLast = << >>
           /\ active_keys = IF ui.state = "Pressed"
                            THEN ui.keys0 \cup {ui.scancode}
                            ELSE ui.keys0 \ {ui.scancode}

\* The unmapped scancode 1 has just been released while held together with
\* scancode 30, whose note-on is the only message ever sent.
C11_Witness ==
    /\ TrackerGot("Released")
    /\ ui.scancode = 1
    /\ ui.keys0 = {1, 30}
    /\ active_keys = {30}
    /\ sent = << C4On >>

\* C13: an invocation takes messages until a take finds the channel empty:
\* when it returns, the channel is empty, every message sent before the
\* return (so every message queued when it began) has been taken, and a
\* write was attempted for each.
C13_DrainUntilEmpty ==
    [][ (pc = "loop" /\ pc' = "idle")
            => /\ chan = << >>
               /\ taken = sent
               /\ Len(written') = Len(sent) ]_vars

\* One invocation has taken three messages, every write Ok, and returned.
C13_Witness ==
    /\ pc = "loop"
    /\ block_start = 0
    /\ Len(taken) = 3
    /\ \A i \in 1..Len(written) : written[i].ok
    /\ chan = << >>

\* C17: the channel is the only state the two threads share. A step of the
\* process closure leaves the Active-Key Set and everything else the UI
\* thread owns unchanged and only removes the head of the channel; a step
\* of the event closure leaves the process closure's state unchanged and
\* only appends to the channel.
C17_ThreadConfinement ==
    [][ /\ (audio_vars' # audio_vars)
            => /\ ui_vars' = ui_vars
               /\ (chan' = chan \/ (chan # << >> /\ chan' = Tail(chan)))
        /\ (ui_vars' # ui_vars)
            => /\ audio_vars' = audio_vars
               /\ Len(chan') >= Len(chan)
               /\ SubSeq(chan', 1, Len(chan)) = chan ]_vars

\* Both threads have acted: one message taken, and a message appended
\* behind another that was still queued.
C17_Witness ==
    /\ taken = << C4On >>
    /\ chan = << D4On, C4Off >>
    /\ active_keys = {31}
    /\ pc = "loop"

\* from_scancode gives every mapped scancode a note, and no two the same
MappedToDistinctNotes ==
    \A a, b \in MappedScanCodes :
        /\ from_scancode(a) # None
        /\ (a # b => from_scancode(a) # from_scancode(b))

\* C18: from_scancode gives the 13 mapped scancodes 13 distinct notes, and
\* the messages sent never hold two pressed:true for one note without a
\* pressed:false for that note between them.
C18_NoDoubledNoteOn ==
    /\ MappedToDistinctNotes
    /\ \A i, j \in 1..Len(sent) :
          (i < j /\ sent[i].pressed /\ sent[j].pressed
               /\ sent[i].note = sent[j].note)
            => \E k \in (i + 1)..(j - 1) :
                  sent[k].note = sent[i].note /\ ~sent[k].pressed

\* C4's key was pressed, released and pressed again and is held.
C18_Witness ==
    /\ sent = << C4On, C4Off, C4On >>
    /\ 30 \in active_keys

\* The position in sent of the last message for a note, 0 if there is none
LastSentFor(note) ==
    LET at == {i \in 1..Len(sent) : sent[i].note = note} IN
    IF at = {} THEN 0 ELSE CHOOSE i \in at : \A j \in at : j <= i

\* C19: for every mapped scancode, the scancode is in the Active-Key Set
\* iff the most recent message sent for its note is pressed:true; when it
\* is not in the set, no message was sent for the note or the most recent
\* one is pressed:false.
C19_SetStreamAgreement ==
    \A c \in ScanCodes \cap MappedScanCodes :
        LET last == LastSentFor(from_scancode(c)) IN
        (c \in active_keys) <=> (last # 0 /\ sent[last].pressed)

\* Scancode 30 was pressed and released and 31 is held: the last C4
\* message is the note-off, the last D4 message the note-on.
C19_Witness ==
    /\ active_keys = {31}
    /\ sent = << C4On, D4On, C4Off >>

\* The last event was a key event that got past the Escape and repeat
\* returns with a scancode that has a note: the closure called tx.send.
TriedToSend ==
    /\ ui.kind = "key"
    /\ ui.virtual_keycode # "Escape"
    /\ ~(ui.state = "Pressed" /\ ui.scancode \in ui.keys0)
    /\ ui.scancode \in MappedScanCodes

\* C12: a send with the Receiver gone makes the event closure panic, and
\* no later event is handled; a send while the Receiver exists never fails
\* and never drops the message, however many messages are queued: for as
\* long as the Receiver exists the channel holds every message sent and
\* not yet taken.
C12_SendFailureIsFatal ==
    /\ (TriedToSend /\ ~ui.rx0) => (panicked /\ SentByLast = << >>)
    /\ (TriedToSend /\ ui.rx0)
          => /\ ~panicked
             /\ SentByLast =
                  << [note |-> from_scancode(ui.scancode),
                      pressed |-> ui.state = "Pressed"] >>
             /\ rx_alive => chan = SubSeq(sent, Len(taken) + 1, Len(sent))

\* The Receiver went away with C4's note-on received and nothing queued;
\* the key-up of scancode 30 then panicked in the unwrap.
C12_Witness ==
    /\ panicked
    /\ ~rx_alive
    /\ ui.scancode = 30
    /\ ui.state = "Released"
    /\ sent = << C4On >>
    /\ taken = << C4On >>

\* C15: to_midi_value maps C4, C#4, D4, ..., B4, C5 to 60, 61, ..., 72: one
\* distinct value per note, strictly increasing with pitch, consecutive
\* notes one apart, every value a 7-bit data byte.
C15_NoteValues ==
    /\ Len(NoteOrder) = 13
    /\ probe.kind = "notes"
          => /\ probe.vi = 59 + probe.i
             /\ probe.vi \in 60..72
             /\ probe.vi \in 0..127
             /\ (probe.i # probe.j => probe.vi # probe.vj)
             /\ (probe.i < probe.j => probe.vi < probe.vj)
             /\ (probe.j = probe.i + 1 => probe.vj = probe.vi + 1)

\* to_midi_value was applied to A#4 and B4, the 11th and 12th notes.
C15_Witness ==
    /\ probe.kind = "notes"
    /\ probe.i = 11
    /\ probe.j = 12
    /\ probe.vi = 70
    /\ probe.vj = 71

\* x is an initial part of y
IsPrefix(x, y) == Len(x) <= Len(y) /\ SubSeq(y, 1, Len(x)) = x

\* The bytes of every write call so far, in order
BytesWritten == [i \in 1..Len(written) |-> written[i].raw.bytes]

\* C16: key-down of the scancode of C4, two repeat key-downs, key-up, from
\* the initial state: the messages sent are {C4,true}, {C4,false} and the
\* callback writes [0x91,60,0x70] then [0x81,60,0x70], under every
\* interleaving of the invocations with the key events.
C16_HoldScenario ==
    /\ IsPrefix(sent, << C4On, C4Off >>)
    /\ IsPrefix(BytesWritten, << <<145, 60, 112>>, <<129, 60, 112>> >>)
    /\ script_pos >= 2 => Len(sent) >= 1
    /\ script_pos = Len(HoldScript) + 1 => sent = << C4On, C4Off >>
    /\ (script_pos = Len(HoldScript) + 1 /\ chan = << >>)
          => BytesWritten = << <<145, 60, 112>>, <<129, 60, 112>> >>

\* All four key events are handled and both messages written, the note-on
\* in an invocation that began before the key-up.
C16_Witness ==
    /\ script_pos = 5
    /\ TrackerGot("Released")
    /\ active_keys = {}
    /\ chan = << >>
    /\ pc = "loop"
    /\ block_start = 1
    /\ Len(written) = 2

\* C14: the process closure never waits for the producer: inside the loop
\* a step of it is always possible while the process runs, on an empty
\* channel that step is the return and no write is made, and every
\* invocation ends, by its return or with the process (the producer sends
\* finitely many messages).
C14_NonBlockingConsumer ==
    /\ []((pc = "loop" /\ ~process_ended)
            => ENABLED (ProcessRecv \/ ProcessReturn))
    /\ [][ (pc = "loop" /\ chan = << >> /\ audio_vars' # audio_vars)
              => (pc' = "idle" /\ written' = written /\ taken' = taken) ]_vars
    /\ (pc = "loop") ~> (pc = "idle" \/ process_ended)

\* An invocation began on an empty channel and returned at once: nothing
\* was ever sent, taken or written.
C14_Witness ==
    /\ ~process_ended
    /\ pc = "idle"
    /\ ret = "Continue"
    /\ sent = << >>
    /\ written = << >>
    /\ active_keys = {1}

\* C20: with the process closure invoked again and again, every message
\* sent is eventually taken and a write attempted for it. The closure
\* stops being invoked when the process ends, which is the one way a
\* message stays queued.
C20_EventualDelivery ==
    \A n \in 1..MaxSentLive :
        (Len(sent) >= n)
            ~> ((Len(taken) >= n /\ Len(written) >= n) \/ process_ended)

\* Two messages were sent before any invocation began; both have been
\* taken and a write attempted for each.
C20_Witness ==
    /\ ~process_ended
    /\ block_start = 0
    /\ Len(taken) = 2
    /\ Len(written) = 2
    /\ taken = sent
    /\ ret = None

====
